---- MODULE Spec2Model ----
\* A model of the logrotate Writer: concurrent producers calling Write, one
\* caller of Close, and the background goroutine running listen, together with
\* the files that goroutine creates in the configured directory.
EXTENDS Integers, Sequences, FiniteSets, TLC

\* ------------------------------------------------------------------ bounds
\* number of producer goroutines calling Write
NumProducers == 2
\* number of Write calls the producers perform in all
MaxCalls == 2
\* longest payload, in bytes
MaxPayloadLen == 1
\* capacity of the queue channel: make(chan []byte, 1024), scaled down so that
\* a full queue occurs
QueueCapacity == 1
\* number of file operations (create, write, sync, close) that may fail
MaxFaults == 1
\* the clock runs from 0 to MaxTime
MaxTime == 3
\* the value of Options.MaximumFileSize when size rotation is configured
FileSizeOpt == 1
\* the value of Options.MaximumLifetime when lifetime rotation is configured
LifetimeOpt == 1

Procs == 1..NumProducers

\* ------------------------------------------------------------------ values
\* the nil error
Nil == "nil"

\* the bytes of a payload: strings.Repeat(tag, len), as the tests build them
Bytes(p) == [i \in 1..p.len |-> p.tag]

\* the byte that fills the j-th payload of producer p
Tag(p, j) == p * (MaxCalls + 1) + j

RECURSIVE Sum(_, _)
\* the sum of fn over the set S
Sum(fn, S) == IF S = {} THEN 0
              ELSE LET x == CHOOSE y \in S : TRUE IN fn[x] + Sum(fn, S \ {x})

RECURSIVE Concat(_)
\* the concatenation of a sequence of byte sequences
Concat(ss) == IF ss = <<>> THEN <<>> ELSE Head(ss) \o Concat(Tail(ss))

\* errors.Wrap(err, msg): nil when err is nil, otherwise err annotated with msg
Wrap(err, msg) == IF err = Nil THEN Nil ELSE msg

VARIABLES
    opts,       \* Options: MaximumFileSize, MaximumLifetime
    closing,    \* the closing channel is closed
    pending,    \* counter of the pending WaitGroup
    waiters,    \* goroutines parked in pending.Wait()
    queue,      \* content of the queue channel
    queueClosed,\* the queue channel is closed
    done,       \* the done channel is closed
    f,          \* w.f: index into files, 0 for nil
    files,      \* files of the directory, in creation order
    logged,     \* lines printed on w.logger
    wpc,        \* position of each producer inside Write
    wcur,       \* payload of the Write call each producer is in
    wcount,     \* number of Write calls each producer has started
    returns,    \* results of the Write calls that returned
    cpc,        \* position of the caller of Close
    closeErr,   \* result of Close
    closeCalls, \* history: number of calls of Close
    lpc,        \* position of the listen goroutine
    b,          \* payload the listen goroutine has dequeued
    bAt,        \* history: the time at which b was dequeued
    panicked,   \* the process died of a runtime panic
    now,        \* the clock
    faults,     \* file operations that failed so far
    accepted,   \* history: payloads in the order they were enqueued
    dequeued,   \* history: payloads in the order listen received them
    writes,     \* history: the w.f.Write calls of listen
    lateCalls,  \* history: payloads of the Write calls begun after closing
    closeAfterAll \* history: no Write call was running when Close was called

vars == <<opts, closing, pending, waiters, queue, queueClosed, done, f, files,
          logged, wpc, wcur, wcount, returns, cpc, closeErr, closeCalls, lpc,
          b, bAt, panicked, now, faults, accepted, dequeued, writes, lateCalls,
          closeAfterAll>>

NoPayload == [tag |-> 0, len |-> 0]

\* New: channels open and empty, no file, listen started
Constructed ==
    /\ closing = FALSE
    /\ pending = 0
    /\ waiters = 0
    /\ queue = <<>>
    /\ queueClosed = FALSE
    /\ done = FALSE
    /\ f = 0
    /\ files = <<>>
    /\ logged = <<>>
    /\ wpc = [p \in Procs |-> "idle"]
    /\ wcur = [p \in Procs |-> NoPayload]
    /\ wcount = [p \in Procs |-> 0]
    /\ returns = {}
    /\ cpc = "idle"
    /\ closeErr = Nil
    /\ closeCalls = 0
    /\ lpc = "range"
    /\ b = NoPayload
    /\ bAt = 0
    /\ panicked = FALSE
    /\ now = 0
    /\ faults = 0
    /\ accepted = <<>>
    /\ dequeued = <<>>
    /\ writes = <<>>
    /\ lateCalls = {}
    /\ closeAfterAll = FALSE

\* a Writer constructed with no rotation configured
Init ==
    /\ opts = [MaximumFileSize |-> 0, MaximumLifetime |-> 0]
    /\ Constructed

\* a Writer constructed with size rotation
InitSize ==
    /\ opts = [MaximumFileSize |-> FileSizeOpt, MaximumLifetime |-> 0]
    /\ Constructed

\* a Writer constructed with lifetime rotation
InitLifetime ==
    /\ opts = [MaximumFileSize |-> 0, MaximumLifetime |-> LifetimeOpt]
    /\ Constructed

\* ------------------------------------------------------------------ Write
\* a select whose closing case is never taken
ClosingSelected_Never == FALSE

\* select { case <-w.closing: ... default: ... }: the case is taken exactly
\* when the closing channel is closed
ClosingSelected == closing

\* the values Write returns from the closing case; err is the named result,
\* still nil there
ClosingResult == [n |-> 0, err |-> Wrap(Nil, "writer is closing")]

\* a Write that rejects the empty payload after the send
SentResult_EmptyIsError(p) ==
    [n |-> p.len, err |-> IF p.len = 0 THEN "empty payload" ELSE Nil]

\* the values Write returns after the send
SentResult(p) == [n |-> p.len, err |-> Nil]

\* Write, entry and select: returns from the closing case or goes on to
\* pending.Add(1)
WriteSelect(p) ==
    /\ ~panicked
    /\ wpc[p] = "idle"
    /\ Sum(wcount, Procs) < MaxCalls
    /\ \E len \in 0..MaxPayloadLen :
         LET pl == [tag |-> Tag(p, wcount[p] + 1), len |-> len] IN
         /\ wcount' = [wcount EXCEPT ![p] = @ + 1]
         /\ lateCalls' = IF closing THEN lateCalls \cup {pl} ELSE lateCalls
         /\ IF ClosingSelected
            THEN /\ returns' = returns \cup
                       {[payload |-> pl, n |-> ClosingResult.n,
                         err |-> ClosingResult.err]}
                 /\ UNCHANGED <<wpc, wcur>>
            ELSE /\ wpc' = [wpc EXCEPT ![p] = "add"]
                 /\ wcur' = [wcur EXCEPT ![p] = pl]
                 /\ UNCHANGED returns
    /\ UNCHANGED <<opts, closing, pending, waiters, queue, queueClosed, done,
                   f, files, logged, cpc, closeErr, lpc, b, bAt, panicked,
                   now, faults, accepted, dequeued, writes, closeAfterAll,
                   closeCalls>>

\* Write: w.pending.Add(1) in the default case
WriteAdd(p) ==
    /\ ~panicked
    /\ wpc[p] = "add"
    /\ pending' = pending + 1
    /\ wpc' = [wpc EXCEPT ![p] = "send"]
    /\ UNCHANGED <<opts, closing, waiters, queue, queueClosed, done, f, files,
                   logged, wcur, wcount, returns, cpc, closeErr, lpc, b, bAt,
                   panicked, now, faults, accepted, dequeued, writes,
                   lateCalls, closeAfterAll, closeCalls>>

\* a send that goes through although the buffer is full
QueueHasSpace_Always == TRUE

\* a send on the buffered channel w.queue goes through when the buffer, made
\* with room for QueueCapacity payloads, is not full
QueueHasSpace == Len(queue) < QueueCapacity

\* Write: w.queue <- p; blocks while the queue is full, panics on a closed queue
WriteSend(p) ==
    /\ ~panicked
    /\ wpc[p] = "send"
    /\ IF queueClosed
       THEN /\ panicked' = TRUE
            /\ UNCHANGED <<queue, accepted, wpc>>
       ELSE /\ QueueHasSpace
            /\ queue' = Append(queue, wcur[p])
            /\ accepted' = Append(accepted, wcur[p])
            /\ wpc' = [wpc EXCEPT ![p] = "ret"]
            /\ UNCHANGED panicked
    /\ UNCHANGED <<opts, closing, pending, waiters, queueClosed, done, f,
                   files, logged, wcur, wcount, returns, cpc, closeErr, lpc,
                   b, bAt, now, faults, dequeued, writes, lateCalls,
                   closeAfterAll, closeCalls>>

\* Write: return len(p), nil, running the deferred w.pending.Done(); a counter
\* that reaches zero releases the goroutine parked in Wait
WriteReturn(p) ==
    /\ ~panicked
    /\ wpc[p] = "ret"
    /\ pending' = pending - 1
    /\ IF pending' = 0 /\ waiters > 0
       THEN waiters' = 0 /\ cpc' = "woken"
       ELSE UNCHANGED <<waiters, cpc>>
    /\ returns' = returns \cup
          {[payload |-> wcur[p], n |-> SentResult(wcur[p]).n,
            err |-> SentResult(wcur[p]).err]}
    /\ wpc' = [wpc EXCEPT ![p] = "idle"]
    /\ wcur' = [wcur EXCEPT ![p] = NoPayload]
    /\ UNCHANGED <<opts, closing, queue, queueClosed, done, f, files, logged,
                   wcount, closeErr, lpc, b, bAt, panicked, now, faults,
                   accepted, dequeued, writes, lateCalls, closeAfterAll,
                   closeCalls>>

\* ------------------------------------------------------------------ Close
\* Close: close(w.closing)
CloseSignal ==
    /\ ~panicked
    /\ cpc = "idle"
    /\ closing' = TRUE
    /\ cpc' = "wait"
    /\ closeCalls' = 1
    /\ closeAfterAll' = \A p \in Procs : wpc[p] = "idle"
    /\ UNCHANGED <<opts, pending, waiters, queue, queueClosed, done, f, files,
                   logged, wpc, wcur, wcount, returns, closeErr, lpc, b, bAt,
                   panicked, now, faults, accepted, dequeued, writes,
                   lateCalls>>

\* a close of the closing channel that is a no-op when it is already closed
ClosePanics_Never == FALSE

\* close(w.closing) panics ("close of closed channel") exactly when the
\* channel is already closed
ClosePanics == closing

\* Close, called once more, by the caller of the first Close after it returned
\* or by another goroutine while it runs: close(w.closing)
CloseAgain ==
    /\ ~panicked
    /\ closeCalls = 1
    /\ closeCalls' = 2
    /\ panicked' = ClosePanics
    /\ UNCHANGED <<opts, closing, pending, waiters, queue, queueClosed, done,
                   f, files, logged, wpc, wcur, wcount, returns, cpc,
                   closeErr, lpc, b, bAt, now, faults, accepted, dequeued,
                   writes, lateCalls, closeAfterAll>>

\* a Wait that returns whatever the counter is
WaitPasses_Always == TRUE

\* pending.Wait() returns at once exactly when the counter is zero
WaitPasses == pending = 0

\* Close: w.pending.Wait(), which returns at once or parks the caller
CloseWait ==
    /\ ~panicked
    /\ cpc = "wait"
    /\ IF WaitPasses
       THEN cpc' = "closeq" /\ UNCHANGED waiters
       ELSE cpc' = "blocked" /\ waiters' = waiters + 1
    /\ UNCHANGED <<opts, closing, pending, queue, queueClosed, done, f, files,
                   logged, wpc, wcur, wcount, returns, closeErr, lpc, b, bAt,
                   panicked, now, faults, accepted, dequeued, writes,
                   lateCalls, closeAfterAll, closeCalls>>

\* Close: the caller released from Wait; sync.WaitGroup panics ("WaitGroup is
\* reused before previous Wait has returned") when an Add got in first
CloseWoken ==
    /\ ~panicked
    /\ cpc = "woken"
    /\ IF pending # 0
       THEN panicked' = TRUE /\ UNCHANGED cpc
       ELSE cpc' = "closeq" /\ UNCHANGED panicked
    /\ UNCHANGED <<opts, closing, pending, waiters, queue, queueClosed, done,
                   f, files, logged, wpc, wcur, wcount, returns, closeErr,
                   lpc, b, bAt, now, faults, accepted, dequeued, writes,
                   lateCalls, closeAfterAll, closeCalls>>

\* Close: close(w.queue)
CloseQueue ==
    /\ ~panicked
    /\ cpc = "closeq"
    /\ queueClosed' = TRUE
    /\ cpc' = "waitdone"
    /\ UNCHANGED <<opts, closing, pending, waiters, queue, done, f, files,
                   logged, wpc, wcur, wcount, returns, closeErr, lpc, b, bAt,
                   panicked, now, faults, accepted, dequeued, writes,
                   lateCalls, closeAfterAll, closeCalls>>

\* a Close that syncs and closes w.f without testing it
HasFile_Always == TRUE

\* the test w.f != nil of Close
HasFile == f # 0

\* a receive that does not wait for the channel to be closed
DoneReceived_Always == TRUE

\* the receive <-w.done, on a channel nothing is sent on, completes once
\* listen has closed the channel
DoneReceived == done

\* Close: <-w.done, then the test w.f != nil
CloseAwaitDone ==
    /\ ~panicked
    /\ cpc = "waitdone"
    /\ DoneReceived
    /\ IF HasFile
       THEN cpc' = "sync" /\ UNCHANGED closeErr
       ELSE cpc' = "returned" /\ closeErr' = Nil
    /\ UNCHANGED <<opts, closing, pending, waiters, queue, queueClosed, done,
                   f, files, logged, wpc, wcur, wcount, returns, lpc, b, bAt,
                   panicked, now, faults, accepted, dequeued, writes,
                   lateCalls, closeAfterAll, closeCalls>>

\* a sync failure reported under the message of the close failure
SyncError_AsClose(err) == Wrap(err, "failed to close current log file")

\* what Close returns when w.f.Sync() failed with err
SyncError(err) == Wrap(err, "failed to sync current log file")

\* what Close returns when w.f.Close() failed with err
CloseError(err) == Wrap(err, "failed to close current log file")

\* Close: w.f.Sync(); a failure (os.ErrInvalid on a nil file) is returned
\* wrapped
CloseSync ==
    /\ ~panicked
    /\ cpc = "sync"
    /\ \/ /\ f # 0
          /\ files' = [files EXCEPT ![f].synced = TRUE]
          /\ cpc' = "fclose"
          /\ UNCHANGED <<closeErr, faults>>
       \/ /\ f = 0 \/ faults < MaxFaults
          /\ faults' = IF f = 0 THEN faults ELSE faults + 1
          /\ closeErr' = SyncError("EIO")
          /\ cpc' = "returned"
          /\ UNCHANGED files
    /\ UNCHANGED <<opts, closing, pending, waiters, queue, queueClosed, done,
                   f, logged, wpc, wcur, wcount, returns, lpc, b, bAt,
                   panicked, now, accepted, dequeued, writes, lateCalls,
                   closeAfterAll, closeCalls>>

\* Close: w.f.Close(); a failure is returned wrapped, otherwise return nil
CloseFile ==
    /\ ~panicked
    /\ cpc = "fclose"
    /\ \/ /\ files' = [files EXCEPT ![f].open = FALSE]
          /\ closeErr' = Nil
          /\ UNCHANGED faults
       \/ /\ faults < MaxFaults
          /\ faults' = faults + 1
          /\ closeErr' = CloseError("EIO")
          /\ UNCHANGED files
    /\ cpc' = "returned"
    /\ UNCHANGED <<opts, closing, pending, waiters, queue, queueClosed, done,
                   f, logged, wpc, wcur, wcount, returns, lpc, b, bAt,
                   panicked, now, accepted, dequeued, writes, lateCalls,
                   closeAfterAll, closeCalls>>

\* ------------------------------------------------------------------ listen
\* a range loop that ends as soon as the queue is closed
RangeEnds_OnClose == queueClosed

\* for b := range w.queue ends when the queue is closed and has been emptied
RangeEnds == queueClosed /\ queue = <<>>

\* a loop that gives up creating a file
NeedsNewFile_Never == FALSE

\* a loop that creates a file for every payload
NeedsNewFile_Always == TRUE

\* the test w.f == nil, the only condition under which listen creates a file
NeedsNewFile == f = 0

\* listen: receive the next payload, or leave the loop and close(w.done)
ListenRange ==
    /\ ~panicked
    /\ lpc = "range"
    /\ IF RangeEnds
       THEN /\ done' = TRUE
            /\ lpc' = "exited"
            /\ UNCHANGED <<b, bAt, queue, dequeued>>
       ELSE /\ queue # <<>>
            /\ b' = Head(queue)
            /\ bAt' = now
            /\ queue' = Tail(queue)
            /\ dequeued' = Append(dequeued, Head(queue))
            /\ lpc' = IF NeedsNewFile THEN "open" ELSE "write"
            /\ UNCHANGED done
    /\ UNCHANGED <<opts, closing, pending, waiters, queueClosed, f, files,
                   logged, wpc, wcur, wcount, returns, cpc, closeErr,
                   panicked, now, faults, accepted, writes, lateCalls,
                   closeAfterAll, closeCalls>>

\* listen: newFile(path) and w.f = f; a failure is logged and leaves w.f nil
ListenOpen ==
    /\ ~panicked
    /\ lpc = "open"
    /\ \/ /\ files' = Append(files, [created |-> now, data |-> <<>>,
                                     synced |-> FALSE, open |-> TRUE])
          /\ f' = Len(files) + 1
          /\ UNCHANGED <<logged, faults>>
       \/ /\ faults < MaxFaults
          /\ faults' = faults + 1
          /\ logged' = Append(logged, "Failed to create new file")
          /\ f' = 0
          /\ UNCHANGED files
    /\ lpc' = "write"
    /\ UNCHANGED <<opts, closing, pending, waiters, queue, queueClosed, done,
                   wpc, wcur, wcount, returns, cpc, closeErr, b, bAt,
                   panicked, now, accepted, dequeued, writes, lateCalls,
                   closeAfterAll, closeCalls>>

\* a loop that is left at the first failed write
AfterWrite_StopOnError(failed) == IF failed THEN "exited" ELSE "range"

\* where listen goes after w.f.Write(b): an error is logged and nothing else,
\* so the loop takes the next payload in either case
AfterWrite(failed) == "range"

\* listen: w.f.Write(b); on a nil file it fails (os.ErrInvalid); otherwise it
\* appends n bytes of b, with an error exactly when it is cut short or fails;
\* an error is logged and the loop goes on
ListenWrite ==
    /\ ~panicked
    /\ lpc = "write"
    /\ \E n \in 0..b.len, failed \in BOOLEAN :
         /\ f = 0 => n = 0 /\ failed
         /\ n < b.len => failed
         /\ failed => n < b.len \/ b.len = 0
         /\ (failed /\ f # 0) => faults < MaxFaults
         /\ faults' = IF failed /\ f # 0 THEN faults + 1 ELSE faults
         /\ files' = IF f # 0
                     THEN [files EXCEPT ![f].data = @ \o SubSeq(Bytes(b), 1, n)]
                     ELSE files
         /\ logged' = IF failed THEN Append(logged, "Failed to write to file.")
                      ELSE logged
         /\ writes' = Append(writes,
                [payload |-> b, file |-> f, n |-> n, failed |-> failed,
                 before |-> IF f # 0 THEN Len(files[f].data) ELSE 0,
                 dequeuedAt |-> bAt])
         /\ lpc' = AfterWrite(failed)
    /\ UNCHANGED <<opts, closing, pending, waiters, queue, queueClosed, done,
                   f, wpc, wcur, wcount, returns, cpc, closeErr, b, bAt,
                   panicked, now, accepted, dequeued, lateCalls,
                   closeAfterAll, closeCalls>>

\* ------------------------------------------------------------------ time
\* the clock advances
Tick ==
    /\ ~panicked
    /\ now < MaxTime
    /\ now' = now + 1
    /\ UNCHANGED <<opts, closing, pending, waiters, queue, queueClosed, done,
                   f, files, logged, wpc, wcur, wcount, returns, cpc,
                   closeErr, lpc, b, bAt, panicked, faults, accepted,
                   dequeued, writes, lateCalls, closeAfterAll, closeCalls>>

Next ==
    \/ \E p \in Procs : WriteSelect(p)
    \/ \E p \in Procs : WriteAdd(p)
    \/ \E p \in Procs : WriteSend(p)
    \/ \E p \in Procs : WriteReturn(p)
    \/ CloseSignal
    \/ CloseWait
    \/ CloseWoken
    \/ CloseQueue
    \/ CloseAwaitDone
    \/ CloseSync
    \/ CloseFile
    \/ ListenRange
    \/ ListenOpen
    \/ ListenWrite

\* the operations together with the passing of time
NextTimed ==
    \/ Next
    \/ Tick

\* the operations together with a second call of Close
NextDoubleClose ==
    \/ Next
    \/ CloseAgain

\* the Writer without rotation; the clock, which matters to lifetime rotation
\* alone, stays at 0
Spec == Init /\ [][Next]_vars

\* the Writer without rotation, Close being called a second time
SpecDoubleClose == Init /\ [][NextDoubleClose]_vars

\* the steps of a Write call that has begun, of Close once called, and of
\* listen
WriteSteps(p) == WriteAdd(p) \/ WriteSend(p) \/ WriteReturn(p)
CloseSteps ==
    \/ CloseWait
    \/ CloseWoken
    \/ CloseQueue
    \/ CloseAwaitDone
    \/ CloseSync
    \/ CloseFile
ListenSteps == ListenRange \/ ListenOpen \/ ListenWrite

\* the goroutines are scheduled fairly and file operations return: a producer
\* inside Write, the caller inside Close, and listen each take their next
\* step when it stays possible; nobody is bound to call Write or Close
Fairness ==
    /\ \A p \in Procs : WF_vars(WriteSteps(p))
    /\ WF_vars(CloseSteps)
    /\ WF_vars(ListenSteps)

\* the Writer without rotation under fair scheduling
SpecFair == Init /\ [][Next]_vars /\ Fairness

\* the Writer with MaximumFileSize set
SpecSize == InitSize /\ [][Next]_vars

\* the Writer with MaximumLifetime set, and the clock running
SpecLifetime == InitLifetime /\ [][NextTimed]_vars

\* ------------------------------------------------------------------ properties
\* a Write result that reports success: n = len(p) and a nil error
Success(r) == r.n = r.payload.len /\ r.err = Nil

\* the payloads in a sequence of payloads
Range(seq) == {seq[i] : i \in 1..Len(seq)}

\* the bytes of all files, concatenated in creation order
FileBytes == Concat([i \in 1..Len(files) |-> files[i].data])

\* Close has returned
CloseReturned == cpc = "returned"

\* C1: once Close has returned, every payload whose Write returned success
\* (n = len(p), nil error) has been dequeued by listen; and done is closed only
\* when the queue is closed and empty.
C1_SuccessIsDequeuedBeforeCloseReturns ==
    /\ done => queueClosed /\ queue = <<>>
    /\ CloseReturned =>
         \A r \in returns : Success(r) => r.payload \in Range(dequeued)

\* C2: after Close returned nil, every payload whose Write returned success was
\* written in full to a file, and the file left open was synced and closed.
C2_CloseNilMeansWrittenAndDurable ==
    (CloseReturned /\ closeErr = Nil) =>
        /\ \A r \in returns : Success(r) =>
             \E i \in 1..Len(writes) :
                 /\ writes[i].payload = r.payload
                 /\ writes[i].file # 0
                 /\ writes[i].n = r.payload.len
        /\ f # 0 => files[f].synced /\ ~files[f].open

C5_LateWriteNeverQueued ==
    /\ \A pl \in lateCalls :
         /\ pl \notin Range(accepted)
         /\ pl \notin Range(queue)
         /\ \A p \in Procs : wpc[p] # "idle" => wcur[p] # pl
         /\ \A i \in 1..Len(files) : pl.tag \notin Range(files[i].data)
    /\ pending = Cardinality({p \in Procs : wpc[p] \in {"send", "ret"}})

\* C5 witness: a non-empty payload was refused after closing was signalled,
\* while other payloads went to a file and Close returned.
C5_Witness ==
    /\ CloseReturned
    /\ \E pl \in lateCalls : pl.len > 0
    /\ FileBytes # <<>>

\* the producer that wrote a payload
Producer(pl) == pl.tag \div (MaxCalls + 1)

\* the bytes of the accepted payloads, concatenated in enqueue order
AcceptedBytes == Concat([i \in 1..Len(accepted) |-> Bytes(accepted[i])])

\* the payloads of one producer were enqueued in the order of its calls
ProducerOrderKept ==
    \A i, j \in 1..Len(accepted) :
        (i < j /\ Producer(accepted[i]) = Producer(accepted[j]))
            => accepted[i].tag < accepted[j].tag

NoRotation == opts.MaximumFileSize = 0 /\ opts.MaximumLifetime = 0

\* every producer made M calls of S bytes, all successful, and Close was called
\* after they had all returned, and has returned
ConcurrentWrites(M, S) ==
    /\ NoRotation
    /\ CloseReturned
    /\ closeAfterAll
    /\ lateCalls = {}
    /\ \A p \in Procs : wcount[p] = M
    /\ Cardinality(returns) = NumProducers * M
    /\ \A r \in returns : Success(r) /\ r.payload.len = S

\* the directory holds one file, of the given size
OneFileOfSize(n) == Len(files) = 1 /\ Len(files[1].data) = n

C7_CloseWithoutWriteLeavesNoFile ==
    /\ (CloseReturned /\ accepted = <<>>) => closeErr = Nil /\ files = <<>>
    /\ files # <<>> => dequeued # <<>>

\* C7 witness: Close returned on a Writer whose Write was never called.
C7_Witness == CloseReturned /\ \A p \in Procs : wcount[p] = 0

\* C8: with MaximumFileSize > 0, a payload that would take the current file
\* over MaximumFileSize is written to a new, empty file.
C8_RotatesOnFileSize ==
    opts.MaximumFileSize > 0 =>
        \A i \in 1..Len(writes) :
            (/\ writes[i].file # 0
             /\ writes[i].before + writes[i].payload.len > opts.MaximumFileSize)
                => writes[i].before = 0

\* C9: with MaximumFileSize > 0, every file is at most MaximumFileSize long,
\* or holds a single payload.
C9_FileSizeBounded ==
    opts.MaximumFileSize > 0 =>
        \A k \in 1..Len(files) :
            \/ Len(files[k].data) <= opts.MaximumFileSize
            \/ Cardinality({i \in 1..Len(writes) : writes[i].file = k}) = 1

\* the slack the lifetime claim allows: one rotation check, one per lifetime
RotationCheckInterval == opts.MaximumLifetime

\* C10: with MaximumLifetime > 0, a payload dequeued when the current file has
\* been open for more than MaximumLifetime plus one rotation-check interval is
\* not written to that file.
C10_RotatesOnLifetime ==
    opts.MaximumLifetime > 0 =>
        \A i, j \in 1..Len(writes) :
            (j < i /\ writes[i].file # 0 /\ writes[j].file = writes[i].file)
                => writes[i].dequeuedAt - files[writes[i].file].created
                       <= opts.MaximumLifetime + RotationCheckInterval

\* C11: a second call of Close does not return: the process has panicked as
\* soon as the call was made, whether the first call was running or had
\* returned.
C11_SecondCloseIsFatal == closeCalls = 2 => panicked

\* C11 witness: Close was called a second time after the first call returned.
C11_Witness == closeCalls = 2 /\ cpc = "returned"

\* C11 witness of the concurrent case: Close was called a second time while
\* the first call was waiting.
C11_WitnessConcurrent == closeCalls = 2 /\ cpc \in {"blocked", "waitdone"}

\* a Write is at its send, the queue is open and full
SendBlocks(p) ==
    wpc[p] = "send" /\ ~queueClosed /\ Len(queue) >= QueueCapacity

\* the queue holds at most its capacity, and a Write that returned success
\* after getting past the select has had its payload put on the queue
NoOverflowNoDrop ==
    /\ Len(queue) <= QueueCapacity
    /\ \A r \in returns :
         (r.payload \notin lateCalls /\ Success(r))
             => r.payload \in Range(accepted)

\* C12 as stated: the queue never holds more than its capacity, a Write at
\* its send can take a step once shutdown has begun (it blocks only until
\* space is available or shutdown begins), and no Write that reached the send
\* returns success without its payload having been put on the queue.
C12_BlocksUntilSpaceOrShutdown ==
    /\ NoOverflowNoDrop
    /\ \A p \in Procs :
         (wpc[p] = "send" /\ closing /\ ~panicked) => ENABLED WriteSend(p)

\* C12 amended: the queue never holds more than its capacity; a Write at its
\* send on the open, full queue can take no step, whether or not shutdown has
\* begun, and a Write gets past its send only by appending its payload to a
\* queue that had space; no Write that reached the send returns success
\* without its payload having been put on the queue.
C12_BlocksUntilSpace ==
    /\ [](/\ NoOverflowNoDrop
          /\ \A p \in Procs : SendBlocks(p) => ~ENABLED WriteSend(p))
    /\ [][\A p \in Procs :
            (wpc[p] = "send" /\ wpc'[p] = "ret")
                => /\ Len(queue) < QueueCapacity
                   /\ queue' = Append(queue, wcur[p])]_vars

\* C12 witness: shutdown has begun and Close is parked in pending.Wait()
\* while a Write is held at its send by the full queue.
C12_Witness == closing /\ cpc = "blocked" /\ \E p \in Procs : SendBlocks(p)

\* C13: Close never closes the queue while a Write that got past the select
\* on w.closing has not yet put its payload on the queue, so that no Write
\* executes its send on the closed queue.
C13_CheckAndAddAtomic ==
    \A p \in Procs : wpc[p] \in {"add", "send"} => ~queueClosed

\* Close is syncing or closing the file, or is past that
CloseAtFile == cpc \in {"sync", "fclose", "returned"}

\* C14: the steps of Close happen in order. The queue is closed only with
\* closing raised; Close gets past pending.Wait() only on a counter of zero
\* and with closing raised; the queue is closed only by the step after that;
\* Close reaches the sync, and a file is synced or closed, only after listen
\* closed done and left its loop; a file is closed only when synced; and
\* listen issues no file write once Close has started syncing.
C14_CloseStepsInOrder ==
    /\ [](/\ queueClosed => closing /\ (cpc = "waitdone" \/ CloseAtFile)
          /\ CloseAtFile => done /\ lpc = "exited"
          /\ \A i \in 1..Len(files) :
               /\ files[i].synced => CloseAtFile
               /\ ~files[i].open => files[i].synced)
    /\ [][/\ (cpc # "closeq" /\ cpc' = "closeq") => closing /\ pending = 0
          /\ (~queueClosed /\ queueClosed') => cpc = "closeq"
          /\ writes' # writes => ~CloseAtFile /\ ~CloseAtFile']_vars

\* C14 witness: Close was parked in Wait, went through all its steps on an
\* open file and returned nil after every payload was written.
C14_Witness ==
    /\ CloseReturned
    /\ ~closeAfterAll
    /\ closeErr = Nil
    /\ f # 0
    /\ Len(writes) = MaxCalls

\* C15: under fair scheduling of the producers, of listen and of the caller
\* of Close, and with file operations that return, a call of Close eventually
\* returns.
C15_CloseEventuallyReturns == (cpc # "idle") ~> CloseReturned

\* the writes listen issued that failed, and those issued on a nil file
FailedWrites == {i \in 1..Len(writes) : writes[i].failed}
NilFileWrites == {i \in 1..Len(writes) : writes[i].file = 0}

\* listen holds a payload it has dequeued and not yet written
PayloadInHand == lpc \in {"open", "write"}

\* C16: a failure to create a file or to write a payload is logged and
\* nothing else. Every failure has its log entry; listen issues a write for
\* every payload it dequeued, in order, whatever failed before; it is outside
\* its loop only on the closed, emptied queue with every accepted payload
\* attempted and done closed; and every Write returns a nil error, with n
\* fixed by the closing signal at the call alone.
C16_IoFailuresOnlyLogged ==
    /\ Len(logged) = Cardinality(FailedWrites) + Cardinality(NilFileWrites)
                        + (IF lpc = "write" /\ f = 0 THEN 1 ELSE 0)
    /\ Len(writes) = Len(dequeued) - (IF PayloadInHand THEN 1 ELSE 0)
    /\ \A i \in 1..Len(writes) : writes[i].payload = dequeued[i]
    /\ lpc \in {"range", "open", "write", "exited"}
    /\ lpc = "exited" =>
         done /\ queueClosed /\ queue = <<>> /\ Len(writes) = Len(accepted)
    /\ \A r \in returns :
         /\ r.err = Nil
         /\ r.n = IF r.payload \in lateCalls THEN 0 ELSE r.payload.len

\* C16 witness: the write of the first payload failed, the write of the second
\* went through, listen left its loop and Close returned, and both Write calls
\* had returned success.
C16_Witness ==
    /\ CloseReturned
    /\ Len(writes) = 2
    /\ writes[1].failed
    /\ ~writes[2].failed /\ writes[2].n = 1
    /\ \A i \in 1..2 : \E r \in returns :
         r.payload = writes[i].payload /\ Success(r)

\* C17: Close, returning with a file open at shutdown, returns "failed to
\* sync current log file" exactly when the sync failed (the file is left
\* unsynced and open), "failed to close current log file" exactly when the
\* sync went through and the close failed (the file is left synced and open),
\* and nil when both went through; with no file open it returns nil.
C17_CloseErrorTellsSyncFromClose ==
    CloseReturned =>
        closeErr = IF f = 0 THEN Nil
                   ELSE IF ~files[f].synced
                        THEN "failed to sync current log file"
                   ELSE IF files[f].open
                        THEN "failed to close current log file"
                   ELSE Nil

\* C17 witness: Close returned after the sync of the open file failed.
C17_Witness == CloseReturned /\ f # 0 /\ ~files[f].synced

\* C17 witness of the other failure: Close returned after the sync went
\* through and the close of the file failed.
C17_WitnessCloseFailed ==
    CloseReturned /\ f # 0 /\ files[f].synced /\ files[f].open

\* listen is between the receive of a payload and the end of its write: it
\* tests, sets or writes through w.f
ListenUsesFile == lpc \in {"open", "write"}

\* Close is at a statement that reads w.f: the test w.f != nil after <-w.done,
\* w.f.Sync() or w.f.Close()
CloseUsesFile == cpc \in {"sync", "fclose"}

\* C18: w.f is used by listen alone while listen runs. Close is never at its
\* uses of w.f while listen is in its loop; every step in which Close reads
\* w.f (the test after <-w.done, the sync, the close) is taken with done
\* closed and listen out of its loop; w.f is set, and a file is created or
\* written, only by a step of listen; and no step of Write touches w.f or a
\* file.
C18_FileOwnedByListen ==
    /\ [](CloseUsesFile => ~ListenUsesFile /\ lpc = "exited" /\ done)
    /\ [][/\ (cpc \in {"waitdone", "sync", "fclose"} /\ cpc' # cpc)
               => done /\ lpc = "exited"
          /\ (f' # f \/ Len(files') # Len(files) \/ FileBytes' # FileBytes)
               => ListenUsesFile /\ lpc' # lpc /\ cpc' = cpc
          /\ (wpc' # wpc \/ wcount' # wcount) => f' = f /\ files' = files
         ]_vars

\* C18 witness: listen has written to the file and left its loop, and Close
\* is at w.f.Sync().
C18_Witness ==
    /\ cpc = "sync"
    /\ lpc = "exited"
    /\ f # 0
    /\ files[f].data # <<>>

\* C19: while the closing signal is not raised no call of Write fails; every
\* call begun before the signal that returns, whatever the length of its
\* payload, returns n = len(p) and a nil error and has put its payload on the
\* queue exactly once; listen issues one write for every accepted payload by
\* the time it leaves its loop, and a write that did not fail wrote len(p)
\* bytes, none for the empty payload.
C19_WriteAcceptsEveryPayload ==
    /\ ~closing => ~panicked
    /\ \A r \in returns :
         r.payload \notin lateCalls =>
             /\ Success(r)
             /\ Cardinality({i \in 1..Len(accepted) :
                                accepted[i] = r.payload}) = 1
    /\ lpc = "exited" =>
         /\ Len(writes) = Len(accepted)
         /\ \A i \in 1..Len(writes) : writes[i].payload = accepted[i]
    /\ \A i \in 1..Len(writes) :
         ~writes[i].failed =>
             writes[i].n = writes[i].payload.len /\ writes[i].file # 0

\* C19 witness: a Write of the empty payload, begun before the closing
\* signal, returned 0 and a nil error, and listen wrote zero bytes for it to
\* the file without a failure.
C19_Witness ==
    \E r \in returns :
        /\ r.payload.len = 0
        /\ r.payload \notin lateCalls
        /\ Success(r)
        /\ \E i \in 1..Len(writes) :
             /\ writes[i].payload = r.payload
             /\ writes[i].file # 0
             /\ ~writes[i].failed
             /\ writes[i].n = 0

\* the logged failures to create a file
CreateFailures ==
    {i \in 1..Len(logged) : logged[i] = "Failed to create new file"}

\* C20: a failed file creation leaves w.f nil (w.f is nil exactly while no
\* file was created); the payload in hand is then written to no file, its
\* write failing with nothing written and its bytes in no file; every payload
\* that met a nil w.f had a creation attempt of its own, so the next payload
\* triggers a fresh attempt; and when every attempt failed, Close returns nil
\* and no file exists.
C20_CreateFailureRetried ==
    /\ f = 0 <=> files = <<>>
    /\ \A i \in NilFileWrites :
         /\ writes[i].failed /\ writes[i].n = 0
         /\ \A k \in 1..Len(files) :
              writes[i].payload.tag \notin Range(files[k].data)
    /\ Cardinality(CreateFailures)
         = Cardinality(NilFileWrites)
             + (IF lpc = "write" /\ f = 0 THEN 1 ELSE 0)
    /\ Len(files) + Cardinality(CreateFailures) <= Len(dequeued)
    /\ (CloseReturned /\ files = <<>>) => closeErr = Nil

\* C20 witness: the creation for the first payload failed and the payload was
\* written to no file; the second payload triggered a creation that went
\* through and was written to that file.
C20_Witness ==
    /\ Len(writes) = 2
    /\ writes[1].file = 0
    /\ writes[2].file = 1
    /\ FileBytes = Bytes(writes[2].payload)
    /\ writes[2].payload.len > 0

\* C20 witness of the case that every creation failed: Close returned nil,
\* payloads were dequeued and no file exists.
C20_WitnessNoFile ==
    /\ CloseReturned
    /\ closeErr = Nil
    /\ writes # <<>>
    /\ files = <<>>

====
